---------------------------- MODULE Spec2Model ----------------------------
(***************************************************************************)
(* CyberTruck telemetry firmware (STM32F103, Core/Src/main.c): four        *)
(* interrupt-driven quadrature decoders, the MPU9250 driver with gyro-Z    *)
(* bias calibration, the 1 ms time base and the 100 Hz acquisition loop    *)
(* that frames everything into 49-byte UART packets.                       *)
(*                                                                         *)
(* 32-bit machine words (uint32_t, int32_t, float) are kept as the pair    *)
(* <<hi, lo>> of their 16-bit halves, so that every word keeps its width   *)
(* and its byte image.  A float is its IEEE-754 binary32 bit pattern; the  *)
(* arithmetic below is round-to-nearest-even on normal numbers and zero,   *)
(* which is the whole range the driver's values can take.                  *)
(***************************************************************************)
EXTENDS Integers, Sequences, FiniteSets, TLC

(***************************************************************************)
(* Words and bytes                                                         *)
(***************************************************************************)
Half == 256 * 256

Zero32 == <<0, 0>>

\* w + d modulo 2^32, for a small signed d (|d| < 65536)
W32AddSmall(w, d) ==
  LET lo == w[2] + d
      c  == IF lo >= Half THEN 1 ELSE IF lo < 0 THEN -1 ELSE 0
  IN  <<(w[1] + c + Half) % Half, (lo + Half) % Half>>

\* a - b modulo 2^32 (uint32_t subtraction)
W32Sub(a, b) ==
  LET lo == a[2] - b[2]
      br == IF lo < 0 THEN 1 ELSE 0
  IN  <<(a[1] - b[1] - br + 2 * Half) % Half, (lo + Half) % Half>>

\* unsigned comparison of a word with a small constant n (0 <= n < 65536)
W32Below(w, n) == w[1] = 0 /\ w[2] < n

\* the word of a small signed integer (two's complement)
W32OfInt(n) == W32AddSmall(Zero32, n)

\* the four bytes of a word in memory order on the little-endian core
Bytes32(w) == <<w[2] % 256, w[2] \div 256, w[1] % 256, w[1] \div 256>>

Bytes16(x) == <<x % 256, x \div 256>>

\* bit i of a ^ b, in place
XorBit(a, b, i) ==
  LET w == <<1, 2, 4, 8, 16, 32, 64, 128>>[i + 1]
  IN  ((((a \div w) % 2) + ((b \div w) % 2)) % 2) * w

\* a ^ b on uint8_t
Xor8(a, b) ==
  XorBit(a, b, 0) + XorBit(a, b, 1) + XorBit(a, b, 2) + XorBit(a, b, 3) +
  XorBit(a, b, 4) + XorBit(a, b, 5) + XorBit(a, b, 6) + XorBit(a, b, 7)

(***************************************************************************)
(* IEEE-754 binary32 arithmetic (the float type of the build).  An         *)
(* unpacked float is [s, e, m]: value (-1)^s * m * 2^e with m = 0 or       *)
(* 2^23 <= m < 2^24.                                                       *)
(***************************************************************************)
Pow2Tab == <<1, 2, 4, 8, 16, 32, 64, 128, 256, 512, 1024, 2048, 4096, 8192,
             16384, 32768, 65536, 131072, 262144, 524288, 1048576, 2097152,
             4194304, 8388608, 16777216, 33554432, 67108864, 134217728,
             268435456, 536870912, 1073741824>>

\* 2^n for 0 <= n <= 30
Pow2(n) == Pow2Tab[n + 1]

\* the number of significant bits of n, 0 <= n < 2^30
BitLen(n) == CHOOSE k \in 0..30 : n < Pow2(k) /\ (k = 0 \/ Pow2(k - 1) <= n)

FUnpack(w) ==
  LET s  == w[1] \div 32768
      be == (w[1] \div 128) % 256
      fr == (w[1] % 128) * Half + w[2]
  IN  IF be = 0 THEN [s |-> s, e |-> 0, m |-> 0]
      ELSE [s |-> s, e |-> be - 150, m |-> 8388608 + fr]

FPack(f) ==
  IF f.m = 0 THEN <<f.s * 32768, 0>>
  ELSE LET be == f.e + 150
           fr == f.m - 8388608
       IN  <<f.s * 32768 + be * 128 + fr \div Half, fr % Half>>

\* round (-1)^s * (M + sticky fraction) * 2^e to nearest, ties to even
FRound(s, e, M, sticky) ==
  IF M = 0 THEN [s |-> s, e |-> 0, m |-> 0]
  ELSE
    LET k == BitLen(M) - 24
    IN  IF k <= 0 THEN [s |-> s, e |-> e + k, m |-> M * Pow2(-k)]
        ELSE
          LET q    == M \div Pow2(k)
              r    == M % Pow2(k)
              half == Pow2(k - 1)
              up   == r > half \/ (r = half /\ (sticky \/ q % 2 = 1))
              q2   == IF up THEN q + 1 ELSE q
          IN  IF q2 = 16777216 THEN [s |-> s, e |-> e + k + 1, m |-> 8388608]
              ELSE [s |-> s, e |-> e + k, m |-> q2]

\* (float)n for an int n with |n| < 2^24 (exact)
FOfInt(n) ==
  FPack(FRound(IF n < 0 THEN 1 ELSE 0, 0, IF n < 0 THEN -n ELSE n, FALSE))

FMul(x, y) ==
  LET a  == FUnpack(x)
      b  == FUnpack(y)
      s  == (a.s + b.s) % 2
      a1 == a.m \div 4096
      a0 == a.m % 4096
      b1 == b.m \div 4096
      b0 == b.m % 4096
      mid == a1 * b0 + a0 * b1
      lf == a0 * b0 + (mid % 4096) * 4096
      L  == lf % 16777216
      H  == a1 * b1 + mid \div 4096 + lf \div 16777216
  IN  IF a.m = 0 \/ b.m = 0 THEN <<s * 32768, 0>>
      ELSE FPack(FRound(s, a.e + b.e + 22, H * 4 + L \div 4194304,
                        L % 4194304 # 0))

\* magnitude order of two unpacked floats
FMagGE(a, b) ==
  IF b.m = 0 THEN TRUE
  ELSE IF a.m = 0 THEN FALSE
  ELSE a.e > b.e \/ (a.e = b.e /\ a.m >= b.m)

FAddU(a, b) ==
  \* |a| >= |b|, both nonzero
  LET d  == a.e - b.e
      X  == a.m * 8
      yf == b.m * 8
      yq == IF d >= 27 THEN 0 ELSE yf \div Pow2(d)
      \* the bits shifted out are kept as a sticky lowest bit
      Y  == IF d >= 27 \/ yf % Pow2(d) # 0 THEN yq + 1 - (yq % 2) ELSE yq
      R  == IF a.s = b.s THEN X + Y ELSE X - Y
  IN  IF R = 0 THEN [s |-> 0, e |-> 0, m |-> 0]
      ELSE FRound(a.s, a.e - 3, R, FALSE)

FAdd(x, y) ==
  LET a == FUnpack(x)
      b == FUnpack(y)
  IN  IF a.m = 0 /\ b.m = 0 THEN <<(IF a.s = 1 /\ b.s = 1 THEN 1 ELSE 0) * 32768, 0>>
      ELSE IF b.m = 0 THEN x
      ELSE IF a.m = 0 THEN y
      ELSE IF FMagGE(a, b) THEN FPack(FAddU(a, b))
      ELSE FPack(FAddU(b, a))

FNeg(x) == <<(x[1] + 32768) % Half, x[2]>>

FSub(x, y) == FAdd(x, FNeg(y))

\* <<acc * 2^26 + floor(rem * 2^26 / den), whether a remainder is left>>, for
\* rem < den < 2^24: long division, seven bits at a time (and five at the end)
LongDiv(rem, den, acc) ==
  LET n1 == rem * 128
      n2 == (n1 % den) * 128
      n3 == (n2 % den) * 128
      n4 == (n3 % den) * 32
      q  == (((acc * 128 + n1 \div den) * 128 + n2 \div den) * 128
               + n3 \div den) * 32 + n4 \div den
  IN  <<q, n4 % den # 0>>

FDiv(x, y) ==
  LET a  == FUnpack(x)
      b  == FUnpack(y)
      s  == (a.s + b.s) % 2
      q0 == IF a.m >= b.m THEN 1 ELSE 0
      qr == LongDiv(a.m - q0 * b.m, b.m, q0)
  IN  IF a.m = 0 THEN <<s * 32768, 0>>
      ELSE FPack(FRound(s, a.e - b.e - 26, qr[1], qr[2]))

\* the float literal n/d, for n and d exact in binary32
FLit(n, d) == FDiv(FOfInt(n), FOfInt(d))

(***************************************************************************)
(* Pins, wheels, tables                                                    *)
(***************************************************************************)
ENC_FLA_PIN == 8
ENC_FLB_PIN == 9
ENC_BLA_PIN == 10
ENC_BLB_PIN == 11
ENC_FRA_PIN == 15
ENC_FRB_PIN == 3
ENC_BRA_PIN == 4
ENC_BRB_PIN == 5

Wheels == {"FL", "FR", "BL", "BR"}

\* the eight encoder pins, named by their EXTI line (= pin number)
Lines == {ENC_FLA_PIN, ENC_FLB_PIN, ENC_BLA_PIN, ENC_BLB_PIN,
          ENC_FRA_PIN, ENC_FRB_PIN, ENC_BRA_PIN, ENC_BRB_PIN}

PinA(w) == CASE w = "FL" -> ENC_FLA_PIN [] w = "FR" -> ENC_FRA_PIN
             [] w = "BL" -> ENC_BLA_PIN [] w = "BR" -> ENC_BRA_PIN

PinB(w) == CASE w = "FL" -> ENC_FLB_PIN [] w = "FR" -> ENC_FRB_PIN
             [] w = "BL" -> ENC_BLB_PIN [] w = "BR" -> ENC_BRB_PIN

WheelOf(l) == CHOOSE w \in Wheels : l \in {PinA(w), PinB(w)}

\* seeded fault: the entry for 01 -> 11 with the sign of 01 -> 00
qLUT_signSlip == << 0, -1,  1,  0,
                    1,  0,  0,  1,
                   -1,  0,  0,  1,
                    0,  1, -1,  0 >>

qLUT == << 0, -1,  1,  0,
           1,  0,  0, -1,
          -1,  0,  0,  1,
           0,  1, -1,  0 >>

\* READ_PIN on an input data register image pn
rdFL(pn) == pn[ENC_FLA_PIN] * 2 + pn[ENC_FLB_PIN]
rdFR(pn) == pn[ENC_FRA_PIN] * 2 + pn[ENC_FRB_PIN]
rdBL(pn) == pn[ENC_BLA_PIN] * 2 + pn[ENC_BLB_PIN]
rdBR(pn) == pn[ENC_BRA_PIN] * 2 + pn[ENC_BRB_PIN]

\* The decoders act on ds = [enc, prev], the eight globals encXX / prevXX.
\* encXX += delta wraps modulo 2^32: the volatile load, ADD, store of the build.
\* seeded fault: prevFL = ns left out
isrFL_prevKept(ds, pn) ==
  LET ns == rdFL(pn)
  IN  [enc  |-> [ds.enc EXCEPT !.FL = W32AddSmall(@, qLUT[ds.prev.FL * 4 + ns + 1])],
       prev |-> ds.prev]

isrFL(ds, pn) ==
  LET ns == rdFL(pn)
  IN  [enc  |-> [ds.enc EXCEPT !.FL = W32AddSmall(@, qLUT[ds.prev.FL * 4 + ns + 1])],
       prev |-> [ds.prev EXCEPT !.FL = ns]]

\* seeded fault: isrFR pasted from isrFL with prevFL left in
isrFR_prevOfFL(ds, pn) ==
  LET ns == rdFR(pn)
  IN  [enc  |-> [ds.enc EXCEPT !.FR = W32AddSmall(@, qLUT[ds.prev.FR * 4 + ns + 1])],
       prev |-> [ds.prev EXCEPT !.FL = ns]]

isrFR(ds, pn) ==
  LET ns == rdFR(pn)
  IN  [enc  |-> [ds.enc EXCEPT !.FR = W32AddSmall(@, qLUT[ds.prev.FR * 4 + ns + 1])],
       prev |-> [ds.prev EXCEPT !.FR = ns]]

isrBL(ds, pn) ==
  LET ns == rdBL(pn)
  IN  [enc  |-> [ds.enc EXCEPT !.BL = W32AddSmall(@, qLUT[ds.prev.BL * 4 + ns + 1])],
       prev |-> [ds.prev EXCEPT !.BL = ns]]

isrBR(ds, pn) ==
  LET ns == rdBR(pn)
  IN  [enc  |-> [ds.enc EXCEPT !.BR = W32AddSmall(@, qLUT[ds.prev.BR * 4 + ns + 1])],
       prev |-> [ds.prev EXCEPT !.BR = ns]]

(***************************************************************************)
(* MPU9250 driver                                                          *)
(***************************************************************************)
I2C_TIMEOUT == 10000

BurstLen == 14

\* One pass of while(!(I2C1->SR1 & flag) && timeout--); st is the loop so far:
\* polls counts the reads of SR1, timeout is the uint32_t counter.  The flag
\* is up from poll number readyAt on (counted from 1), or never (readyAt = 0).
\* seeded fault: while(!(I2C1->SR1 & flag));
WaitStep_noTimeout(st, readyAt) ==
  IF st.done THEN st
  ELSE IF st.polls + 1 = readyAt
       THEN [st EXCEPT !.polls = @ + 1, !.done = TRUE]
       ELSE [st EXCEPT !.polls = @ + 1]

WaitStep(st, readyAt) ==
  IF st.done THEN st
  ELSE IF st.polls + 1 = readyAt
       THEN [st EXCEPT !.polls = @ + 1, !.done = TRUE]
       ELSE [polls     |-> st.polls + 1,
             timeout   |-> W32AddSmall(st.timeout, -1),
             done      |-> st.timeout = Zero32,
             timed_out |-> st.timeout = Zero32]

\* n passes of the loop, or fewer if it ends; walked first half, then
\* second half, which keeps the evaluation shallow
RECURSIVE WaitIter(_, _, _)
WaitIter(st, readyAt, n) ==
  IF n = 0 \/ st.done THEN st
  ELSE IF n = 1 THEN WaitStep(st, readyAt)
  ELSE LET h  == n \div 2
           s1 == WaitIter(st, readyAt, h)
       IN  IF s1.done THEN s1 ELSE WaitIter(s1, readyAt, n - h)

\* the loop is followed for this many passes; one still running then is
\* reported as hung
WaitHorizon == I2C_TIMEOUT + 2

WaitRun(readyAt) ==
  LET st == WaitIter([polls |-> 0, timeout |-> W32OfInt(I2C_TIMEOUT),
                      done |-> FALSE, timed_out |-> FALSE], readyAt, WaitHorizon)
  IN  [polls |-> st.polls, timed_out |-> st.timed_out, hung |-> ~st.done]

\* the flag behaviours the waits are run on, worked out once
WaitInputs == {0, 1, 2, I2C_TIMEOUT, I2C_TIMEOUT + 1, I2C_TIMEOUT + 2}

WaitTable == [r \in WaitInputs |-> WaitRun(r)]

\* the wait of i2c_start, i2c_write_addr, i2c_write_data, i2c_read_ack and
\* i2c_read_nack
i2c_wait(readyAt) ==
  IF readyAt \in WaitInputs THEN WaitTable[readyAt] ELSE WaitRun(readyAt)

\* i2c_write(reg, val): i2c_start, i2c_write_addr, two i2c_write_data
i2c_write(responding) ==
  LET wt == i2c_wait(IF responding THEN 1 ELSE 0)
  IN  [polls |-> 4 * wt.polls, timed_out |-> wt.timed_out, hung |-> wt.hung]

\* i2c_read_burst(reg, n, dst): with a responding sensor every wait sees its
\* flag at once and dst gets the n registers; with none every wait runs out
\* and each read returns what the data register still holds.  The return
\* value is n either way.  There are 5 waits before the n reads.
i2c_read_burst(n, responding, regs, dr) ==
  LET wt == i2c_wait(IF responding THEN 1 ELSE 0)
  IN  [ret       |-> n,
       buf       |-> IF wt.timed_out THEN [i \in 1..n |-> dr] ELSE regs,
       timed_out |-> wt.timed_out,
       polls     |-> (5 + n) * wt.polls,
       hung      |-> wt.hung]

mpu_begin == 1

\* mpu_begin: six i2c_write, two delay_ms, return 1
mpu_begin_run(responding) ==
  LET wr == i2c_write(responding)
  IN  [ret |-> mpu_begin, polls |-> 6 * wr.polls, hung |-> wr.hung]

Raw16(hi, lo) ==
  LET u == hi * 256 + lo
  IN  IF u >= 32768 THEN u - 65536 ELSE u

ACCEL_S == FDiv(FLit(980665, 100000), FOfInt(8192))

GYRO_S == FLit(42569, 40000000)

\* seeded fault: the gyro pairs taken right after the accel pairs, at buf[6]
mpu_read_gyroAt6(burst, bias, out) ==
  IF burst.ret # BurstLen THEN [out EXCEPT !.ret = 0]
  ELSE
    LET buf == burst.buf
        ax_raw == Raw16(buf[1], buf[2])
        ay_raw == Raw16(buf[3], buf[4])
        az_raw == Raw16(buf[5], buf[6])
        gx_raw == Raw16(buf[7], buf[8])
        gy_raw == Raw16(buf[9], buf[10])
        gz_raw == Raw16(buf[11], buf[12])
    IN  [ret |-> 1,
         ax |-> FMul(FOfInt(ax_raw), ACCEL_S),
         ay |-> FMul(FOfInt(ay_raw), ACCEL_S),
         az |-> FMul(FOfInt(az_raw), ACCEL_S),
         gx |-> FMul(FOfInt(gx_raw), GYRO_S),
         gy |-> FMul(FOfInt(gy_raw), GYRO_S),
         gz |-> FSub(FMul(FOfInt(gz_raw), GYRO_S), bias)]

\* seeded fault: the length test made after the conversion
mpu_read_lateCheck(burst, bias, out) ==
  LET buf == burst.buf
      ax_raw == Raw16(buf[1], buf[2])
      ay_raw == Raw16(buf[3], buf[4])
      az_raw == Raw16(buf[5], buf[6])
      gx_raw == Raw16(buf[9], buf[10])
      gy_raw == Raw16(buf[11], buf[12])
      gz_raw == Raw16(buf[13], buf[14])
  IN  [ret |-> IF burst.ret # BurstLen THEN 0 ELSE 1,
       ax |-> FMul(FOfInt(ax_raw), ACCEL_S),
       ay |-> FMul(FOfInt(ay_raw), ACCEL_S),
       az |-> FMul(FOfInt(az_raw), ACCEL_S),
       gx |-> FMul(FOfInt(gx_raw), GYRO_S),
       gy |-> FMul(FOfInt(gy_raw), GYRO_S),
       gz |-> FSub(FMul(FOfInt(gz_raw), GYRO_S), bias)]

\* seeded fault: the length test of mpu_read left out
mpu_read_unchecked(burst, bias, out) ==
  IF FALSE THEN [out EXCEPT !.ret = 0]
  ELSE
    LET buf == burst.buf
        ax_raw == Raw16(buf[1], buf[2])
        ay_raw == Raw16(buf[3], buf[4])
        az_raw == Raw16(buf[5], buf[6])
        gx_raw == Raw16(buf[9], buf[10])
        gy_raw == Raw16(buf[11], buf[12])
        gz_raw == Raw16(buf[13], buf[14])
    IN  [ret |-> 1,
         ax |-> FMul(FOfInt(ax_raw), ACCEL_S),
         ay |-> FMul(FOfInt(ay_raw), ACCEL_S),
         az |-> FMul(FOfInt(az_raw), ACCEL_S),
         gx |-> FMul(FOfInt(gx_raw), GYRO_S),
         gy |-> FMul(FOfInt(gy_raw), GYRO_S),
         gz |-> FSub(FMul(FOfInt(gz_raw), GYRO_S), bias)]

\* mpu_read: out are the six caller variables behind the pointers
mpu_read(burst, bias, out) ==
  IF burst.ret # BurstLen THEN [out EXCEPT !.ret = 0]
  ELSE
    LET buf == burst.buf
        ax_raw == Raw16(buf[1], buf[2])
        ay_raw == Raw16(buf[3], buf[4])
        az_raw == Raw16(buf[5], buf[6])
        gx_raw == Raw16(buf[9], buf[10])
        gy_raw == Raw16(buf[11], buf[12])
        gz_raw == Raw16(buf[13], buf[14])
    IN  [ret |-> 1,
         ax |-> FMul(FOfInt(ax_raw), ACCEL_S),
         ay |-> FMul(FOfInt(ay_raw), ACCEL_S),
         az |-> FMul(FOfInt(az_raw), ACCEL_S),
         gx |-> FMul(FOfInt(gx_raw), GYRO_S),
         gy |-> FMul(FOfInt(gy_raw), GYRO_S),
         gz |-> FSub(FMul(FOfInt(gz_raw), GYRO_S), bias)]

ZeroOut == [ret |-> 0, ax |-> Zero32, ay |-> Zero32, az |-> Zero32,
            gx |-> Zero32, gy |-> Zero32, gz |-> Zero32]

CalibN == 400

\* one pass of the calibration loop body of main
CalibStep(sum, burst, bias) ==
  LET r == mpu_read(burst, bias, ZeroOut)
  IN  IF r.ret # 0 THEN FAdd(sum, FAdd(r.gz, bias)) ELSE sum

IsWord(w) == w[1] \in 0..(Half - 1) /\ w[2] \in 0..(Half - 1)

\* the calibration loop of main with i of its passes still to do.  The passes
\* are evaluated first half, then second half, and the sum between the halves
\* is looked at before it is passed on: this keeps the evaluation shallow.
RECURSIVE CalibSum(_, _, _, _)
CalibSum(i, sum, burst, bias) ==
  IF i = 0 THEN sum
  ELSE IF i = 1 THEN CalibStep(sum, burst, bias)
  ELSE LET h  == i \div 2
           s1 == CalibSum(h, sum, burst, bias)
       IN  IF IsWord(s1) THEN CalibSum(i - h, s1, burst, bias) ELSE s1

CalibBias(burst, bias) == FDiv(CalibSum(CalibN, Zero32, burst, bias), FOfInt(CalibN))

(***************************************************************************)
(* Packet                                                                  *)
(***************************************************************************)
\* seeded fault: the struct with flags declared first
PayloadBytes_flagsFirst(p) ==
  Bytes16(p.flags) \o Bytes32(p.t_ms) \o Bytes32(p.ticksFL) \o
  Bytes32(p.ticksFR) \o Bytes32(p.ticksBL) \o Bytes32(p.ticksBR) \o
  Bytes32(p.ax) \o Bytes32(p.ay) \o Bytes32(p.az) \o
  Bytes32(p.gx) \o Bytes32(p.gy) \o Bytes32(p.gz)

\* the packed struct Payload as it lies in memory
PayloadBytes(p) ==
  Bytes32(p.t_ms) \o Bytes32(p.ticksFL) \o Bytes32(p.ticksFR) \o
  Bytes32(p.ticksBL) \o Bytes32(p.ticksBR) \o
  Bytes32(p.ax) \o Bytes32(p.ay) \o Bytes32(p.az) \o
  Bytes32(p.gx) \o Bytes32(p.gy) \o Bytes32(p.gz) \o Bytes16(p.flags)

SizeofPayload == Len(PayloadBytes([t_ms |-> Zero32, ticksFL |-> Zero32,
  ticksFR |-> Zero32, ticksBL |-> Zero32, ticksBR |-> Zero32, ax |-> Zero32,
  ay |-> Zero32, az |-> Zero32, gx |-> Zero32, gy |-> Zero32, gz |-> Zero32,
  flags |-> 0]))

\* the loop of checksum_xor over data[lo..hi] (1-based), entered with
\* accumulator c: c ^= data[i] for i ascending.  The range is walked first
\* half, then second half, which keeps the evaluation shallow.
RECURSIVE XorLoop(_, _, _, _)
XorLoop(data, lo, hi, c) ==
  IF lo > hi THEN c
  ELSE IF lo = hi THEN Xor8(c, data[lo])
  ELSE LET mid == (lo + hi) \div 2
           c1  == XorLoop(data, lo, mid, c)
       IN  IF c1 \in 0..255 THEN XorLoop(data, mid + 1, hi, c1) ELSE c1

\* seeded fault: the loop started at i = 1
checksum_xor_from1(data, n) == XorLoop(data, 2, n, 0)

checksum_xor(data, n) == XorLoop(data, 1, n, 0)

H0 == 170
H1 == 85

\* the bytes send_payload hands to uart_send_byte, in order
send_payload(p) ==
  LET data == PayloadBytes(p)
  IN  <<H0, H1>> \o SubSeq(data, 1, SizeofPayload)
        \o <<checksum_xor(data, SizeofPayload)>>

FrameLen == 2 + SizeofPayload + 1

(***************************************************************************)
(* Bounds of the model and the inputs it is run on                         *)
(***************************************************************************)
MaxLag == 1
MaxBodyTicks == 1
MaxEdges == 1
MaxFrames == 2
MaxDecSteps == 6

\* register images ACCEL_XOUT_H .. GYRO_ZOUT_L of a stationary sensor
ImgA == <<16, 0,  0, 0,  32, 0,  11, 184,  255, 253,  0, 5,  0, 7>>
ImgB == <<128, 0,  127, 255,  255, 255,  255, 255,  1, 0,  255, 0,  3, 232>>
ImuImages == {ImgA, ImgB}

PERIOD_MS == 10

(***************************************************************************)
(* State                                                                   *)
(***************************************************************************)
VARIABLES
  pc,              \* where main is
  systick_millis,  \* volatile uint32_t systick_millis
  systick_on,      \* SysTick counting with TICKINT (systick_init done)
  tick_pending,    \* SysTick exception pending
  primask,         \* TRUE between __disable_irq and __enable_irq
  exti_on,         \* exti_init done: edge triggers, IMR and NVIC enabled
  PR,              \* EXTI->PR: the pending lines
  unserved,        \* history: lines latched since their vector last ran
  pins,            \* GPIO input levels of the eight encoder pins
  enc,             \* encFL, encFR, encBL, encBR
  prev,            \* prevFL, prevFR, prevBL, prevBR
  gyro_bias_z,     \* float gyro_bias_z
  last,            \* main: uint32_t last
  now,             \* main: uint32_t now
  t,               \* main: tFL, tFR, tBL, tBR
  smp,             \* main: ax .. gz and ok of the cycle
  p,               \* main: Payload p
  uart,            \* every byte written to USART3->DR so far
  bus_ok,          \* the sensor answers on the I2C bus
  imu,             \* the sensor's 14 output registers
  i2c_dr,          \* I2C1->DR
  callee,          \* "code": callees return what their code returns;
                   \* "any": mpu_begin and i2c_read_burst return any value
                   \*        of their contract (callers checked alone)
  edges,           \* history: pin edges so far
  exp,             \* history: per wheel, start + forward - reverse steps
  clean,           \* history: per wheel, prev was the pin phase at exti_init
  bias_writes,     \* history: assignments to gyro_bias_z
  begin_ret,       \* history: what mpu_begin returned (-1: not called yet)
  cur,             \* history: the cycle under way
  hist,            \* history: one record per frame sent
  d_w, d_start, d_f, d_r, d_ok, d_n   \* decoder harness (SpecDec only)

vars == <<pc, systick_millis, systick_on, tick_pending, primask, exti_on, PR,
          unserved, pins, enc, prev, gyro_bias_z, last, now, t, smp, p, uart, bus_ok,
          imu, i2c_dr, callee, edges, exp, clean, bias_writes, begin_ret,
          cur, hist, d_w, d_start, d_f, d_r, d_ok, d_n>>

mainVars == <<pc, gyro_bias_z, last, now, t, smp, p, uart, i2c_dr,
              bias_writes, begin_ret, cur, hist>>
irqVars  == <<systick_millis, tick_pending, PR, unserved, enc, prev>>
envVars  == <<pins, bus_ok, imu, edges, exp>>
decVars  == <<d_w, d_start, d_f, d_r, d_ok, d_n>>

ZeroTicks == [FL |-> Zero32, FR |-> Zero32, BL |-> Zero32, BR |-> Zero32]

NoPayload == [t_ms |-> Zero32, ticksFL |-> Zero32, ticksFR |-> Zero32,
              ticksBL |-> Zero32, ticksBR |-> Zero32, ax |-> Zero32,
              ay |-> Zero32, az |-> Zero32, gx |-> Zero32, gy |-> Zero32,
              gz |-> Zero32, flags |-> 0]

NoCycle == [snap |-> ZeroTicks, ret |-> 0, timed_out |-> FALSE, bias |-> Zero32]

rd(w, pn) == CASE w = "FL" -> rdFL(pn) [] w = "FR" -> rdFR(pn)
               [] w = "BL" -> rdBL(pn) [] w = "BR" -> rdBR(pn)

\* +1 for a step along the phase cycle 00 -> 10 -> 11 -> 01 -> 00 (channel A
\* leads), -1 for a step against it, 0 for no step or a double step
GrayDir(a, b) ==
  IF <<a, b>> \in {<<0, 2>>, <<2, 3>>, <<3, 1>>, <<1, 0>>} THEN 1
  ELSE IF <<b, a>> \in {<<0, 2>>, <<2, 3>>, <<3, 1>>, <<1, 0>>} THEN -1
  ELSE 0

\* the machine after reset, but for the decoder globals and the pins
InitCommon ==
  /\ systick_millis = Zero32
  /\ systick_on = FALSE
  /\ tick_pending = FALSE
  /\ primask = FALSE
  /\ exti_on = FALSE
  /\ PR = {}
  /\ unserved = {}
  /\ gyro_bias_z = Zero32
  /\ last = Zero32
  /\ now = Zero32
  /\ t = ZeroTicks
  /\ smp = ZeroOut
  /\ p = NoPayload
  /\ uart = <<>>
  /\ i2c_dr = 0
  /\ edges = 0
  /\ exp = ZeroTicks
  /\ clean = [w \in Wheels |-> FALSE]
  /\ bias_writes = 0
  /\ begin_ret = -1
  /\ cur = NoCycle
  /\ hist = <<>>

ZeroPhases == [FL |-> 0, FR |-> 0, BL |-> 0, BR |-> 0]

\* reset: main at its first statement, the statics zero, the encoder inputs
\* high; the sensor is there or not
InitBoot ==
  /\ InitCommon
  /\ pc = "boot"
  /\ pins = [l \in Lines |-> 1]
  /\ enc = ZeroTicks
  /\ prev = ZeroPhases
  /\ d_w = "FL" /\ d_start = [enc |-> Zero32, prev |-> 0]
  /\ d_f = 0 /\ d_r = 0 /\ d_ok = TRUE /\ d_n = 0
  /\ \/ bus_ok = TRUE /\ imu \in ImuImages
     \/ bus_ok = FALSE /\ imu = ImgA

Init == InitBoot /\ callee = "code"

(***************************************************************************)
(* Interrupts                                                              *)
(***************************************************************************)
\* Thread mode does not run while an enabled interrupt is pending.
Preempted == ~primask /\ (tick_pending \/ (exti_on /\ PR # {}))

\* The 1 ms reload of the SysTick counter raises the SysTick exception.  The
\* model follows the clock while frames are still to come, until the loop is
\* MaxLag ms late for its next frame, and lets at most MaxBodyTicks reloads
\* fall into the start-up or into one pass of the loop body.
TickReload ==
  /\ systick_on /\ ~tick_pending
  /\ IF pc = "poll"
     THEN /\ Len(uart) < MaxFrames * FrameLen
          /\ W32Below(W32Sub(systick_millis, last), PERIOD_MS + MaxLag)
     ELSE W32Below(W32Sub(systick_millis, now), MaxBodyTicks)

\* a reload while PRIMASK is set: the exception stays pending
TickEvent ==
  /\ TickReload /\ primask
  /\ tick_pending' = TRUE
  /\ UNCHANGED <<mainVars, envVars, decVars, systick_millis, PR, unserved,
                 enc, prev, systick_on, primask, exti_on, callee, clean>>

\* the handler, entered at the reload, or at __enable_irq when it was pending
SysTick_Handler ==
  /\ ~primask
  /\ tick_pending \/ TickReload
  /\ systick_millis' = W32AddSmall(systick_millis, 1)
  /\ tick_pending' = FALSE
  /\ UNCHANGED <<mainVars, envVars, decVars, PR, unserved, enc, prev,
                 systick_on, primask, exti_on, callee, clean>>

\* The handlers, as functions of x = [ds, pr] (the decoder globals, EXTI->PR).
OnLine(x, l, ds2) ==
  IF l \in x.pr THEN [ds |-> ds2, pr |-> x.pr \ {l}] ELSE x

EXTI9_5_IRQHandler(x, pn) ==
  LET x1 == OnLine(x, ENC_FLA_PIN, isrFL(x.ds, pn))
  IN  OnLine(x1, ENC_FLB_PIN, isrFL(x1.ds, pn))

EXTI15_10_IRQHandler(x, pn) ==
  LET x1 == OnLine(x, ENC_BLA_PIN, isrBL(x.ds, pn))
      x2 == OnLine(x1, ENC_BLB_PIN, isrBL(x1.ds, pn))
  IN  OnLine(x2, ENC_FRA_PIN, isrFR(x2.ds, pn))

EXTI3_IRQHandler(x, pn) == OnLine(x, ENC_FRB_PIN, isrFR(x.ds, pn))

EXTI4_IRQHandler(x, pn) == OnLine(x, ENC_BRA_PIN, isrBR(x.ds, pn))

\* defined in main.c, but no interrupt vector carries this name
EXTI9_5_IRQHandler_PB5(x, pn) == OnLine(x, ENC_BRB_PIN, isrBR(x.ds, pn))

\* the EXTI lines each NVIC vector collects
VecLines(v) ==
  CASE v = "EXTI3" -> {3}
    [] v = "EXTI4" -> {4}
    [] v = "EXTI9_5" -> 5..9
    [] v = "EXTI15_10" -> 10..15

Irq(v, x2) ==
  /\ exti_on /\ ~primask
  /\ PR \cap VecLines(v) # {}
  /\ enc' = x2.ds.enc
  /\ prev' = x2.ds.prev
  /\ PR' = x2.pr
  /\ unserved' = unserved \ VecLines(v)
  /\ UNCHANGED <<mainVars, envVars, decVars, systick_millis, tick_pending,
                 systick_on, primask, exti_on, callee, clean>>

IrqState == [ds |-> [enc |-> enc, prev |-> prev], pr |-> PR]

Vectors == {"EXTI3", "EXTI4", "EXTI9_5", "EXTI15_10"}

VecOf(l) == CHOOSE v \in Vectors : l \in VecLines(v)

\* the handler the vector table holds for v
Handler(v, x, pn) ==
  CASE v = "EXTI3" -> EXTI3_IRQHandler(x, pn)
    [] v = "EXTI4" -> EXTI4_IRQHandler(x, pn)
    [] v = "EXTI9_5" -> EXTI9_5_IRQHandler(x, pn)
    [] v = "EXTI15_10" -> EXTI15_10_IRQHandler(x, pn)

\* A pin changes level.  Once the edge triggers are on, the line is latched
\* in PR; with PRIMASK clear its vector is entered at once and the handler
\* runs in the same step, with PRIMASK set the line waits (IrqEXTI.. below
\* run the handlers at __enable_irq).  The edges of one wheel are spaced: the
\* next one arrives after the interrupts of the earlier ones were serviced.
Edge(l) ==
  LET w     == WheelOf(l)
      pn2   == [pins EXCEPT ![l] = 1 - @]
      taken == exti_on /\ ~primask
      x1    == [ds |-> [enc |-> enc, prev |-> prev],
                pr |-> IF exti_on THEN PR \cup {l} ELSE PR]
      x2    == IF taken THEN Handler(VecOf(l), x1, pn2) ELSE x1
  IN  /\ edges < MaxEdges
      /\ unserved \cap {PinA(w), PinB(w)} = {}
      /\ pins' = pn2
      /\ edges' = edges + 1
      /\ enc' = x2.ds.enc
      /\ prev' = x2.ds.prev
      /\ PR' = x2.pr
      /\ unserved' = IF taken THEN unserved \ VecLines(VecOf(l))
                     ELSE IF exti_on THEN unserved \cup {l}
                     ELSE unserved
      /\ exp' = IF exti_on
                THEN [exp EXCEPT ![w] = W32AddSmall(@, GrayDir(rd(w, pins), rd(w, pn2)))]
                ELSE exp
      /\ UNCHANGED <<mainVars, decVars, systick_millis, tick_pending,
                     systick_on, primask, exti_on, callee, clean, bus_ok, imu>>

IrqEXTI9_5 == Irq("EXTI9_5", EXTI9_5_IRQHandler(IrqState, pins))
IrqEXTI15_10 == Irq("EXTI15_10", EXTI15_10_IRQHandler(IrqState, pins))
IrqEXTI3 == Irq("EXTI3", EXTI3_IRQHandler(IrqState, pins))
IrqEXTI4 == Irq("EXTI4", EXTI4_IRQHandler(IrqState, pins))

(***************************************************************************)
(* main                                                                    *)
(***************************************************************************)
\* what the callees hand back to main and mpu_read
BeginRets ==
  LET b == mpu_begin_run(bus_ok)
  IN  IF b.hung THEN {}
      ELSE IF callee = "code" THEN {b.ret} ELSE {0, 1}

Bursts ==
  LET b == i2c_read_burst(BurstLen, bus_ok, imu, i2c_dr)
  IN  IF b.hung THEN {}
      ELSE IF callee = "code" THEN {b}
      ELSE {[b EXCEPT !.ret = r] : r \in {BurstLen - 1, BurstLen}}

\* I2C1->DR after a burst: the last byte received, if any was
DrAfter(burst) == IF burst.timed_out THEN i2c_dr ELSE burst.buf[BurstLen]

\* the calibration results of the bursts the model's sensor can deliver,
\* worked out once
CalibTable ==
  [b \in {[i2c_read_burst(BurstLen, ok, img, 0) EXCEPT !.ret = r] :
            ok \in BOOLEAN, img \in ImuImages, r \in {BurstLen - 1, BurstLen}}
     |-> CalibBias(b, Zero32)]

CalibBiasOf(burst, bias) ==
  IF bias = Zero32 /\ burst \in DOMAIN CalibTable THEN CalibTable[burst]
  ELSE CalibBias(burst, bias)

\* clock_init .. i2c_init, delay_ms(100)
Boot ==
  /\ pc = "boot"
  /\ systick_on' = TRUE
  /\ pc' = "begin"
  /\ UNCHANGED <<gyro_bias_z, last, now, t, smp, p, uart, i2c_dr, bias_writes,
                 begin_ret, cur, hist, irqVars, envVars, decVars, primask, exti_on,
                 callee, clean>>

\* seeded fault: mpu_begin(); with its result dropped
MainBegin_ignored(r) ==
  /\ pc = "begin" /\ ~Preempted
  /\ pc' = "calib"
  /\ begin_ret' = r
  /\ UNCHANGED <<gyro_bias_z, last, now, t, smp, p, uart, i2c_dr, bias_writes,
                 cur, hist, irqVars, envVars, decVars, systick_on, primask,
                 exti_on, callee, clean>>

\* if(!mpu_begin()) while(1);
MainBegin(r) ==
  /\ pc = "begin" /\ ~Preempted
  /\ pc' = IF r = 0 THEN "halt" ELSE "calib"
  /\ begin_ret' = r
  /\ UNCHANGED <<gyro_bias_z, last, now, t, smp, p, uart, i2c_dr, bias_writes,
                 cur, hist, irqVars, envVars, decVars, systick_on, primask,
                 exti_on, callee, clean>>

\* seeded fault: the loop run, its result never stored
MainCalibrate_skipped(burst) ==
  /\ pc = "calib" /\ ~Preempted
  /\ gyro_bias_z' = gyro_bias_z
  /\ bias_writes' = bias_writes
  /\ i2c_dr' = DrAfter(burst)
  /\ pc' = "capture"
  /\ UNCHANGED <<last, now, t, smp, p, uart, begin_ret, cur, hist, irqVars, envVars,
                 decVars, systick_on, primask, exti_on, callee, clean>>

\* the N-sample loop and gyro_bias_z = sum / N; the sensor is stationary and
\* the bus does not change while it runs
MainCalibrate(burst) ==
  /\ pc = "calib" /\ ~Preempted
  /\ gyro_bias_z' = CalibBiasOf(burst, gyro_bias_z)
  /\ bias_writes' = bias_writes + 1
  /\ i2c_dr' = DrAfter(burst)
  /\ pc' = "capture"
  /\ UNCHANGED <<last, now, t, smp, p, uart, begin_ret, cur, hist, irqVars, envVars,
                 decVars, systick_on, primask, exti_on, callee, clean>>

\* seeded fault: the capture left out, prevXX keep their initial 0
MainCapture_assumedZero ==
  /\ pc = "capture" /\ ~Preempted
  /\ prev' = prev
  /\ pc' = "exti"
  /\ UNCHANGED <<gyro_bias_z, last, now, t, smp, p, uart, i2c_dr, bias_writes,
                 begin_ret, cur, hist, systick_millis, tick_pending, PR, unserved, enc,
                 envVars,
                 decVars, systick_on, primask, exti_on, callee, clean>>

\* prevFL = rdFL(); prevFR = rdFR(); prevBL = rdBL(); prevBR = rdBR();
MainCapture ==
  /\ pc = "capture" /\ ~Preempted
  /\ prev' = [FL |-> rdFL(pins), FR |-> rdFR(pins),
              BL |-> rdBL(pins), BR |-> rdBR(pins)]
  /\ pc' = "exti"
  /\ UNCHANGED <<gyro_bias_z, last, now, t, smp, p, uart, i2c_dr, bias_writes,
                 begin_ret, cur, hist, systick_millis, tick_pending, PR, unserved, enc,
                 envVars,
                 decVars, systick_on, primask, exti_on, callee, clean>>

\* exti_init(); uint32_t last = 0;
MainExtiInit ==
  /\ pc = "exti" /\ ~Preempted
  /\ exti_on' = TRUE
  /\ last' = Zero32
  /\ clean' = [w \in Wheels |-> prev[w] = rd(w, pins)]
  /\ pc' = "poll"
  /\ UNCHANGED <<gyro_bias_z, now, t, smp, p, uart, i2c_dr, bias_writes,
                 begin_ret, cur, hist, irqVars, envVars, decVars, systick_on, primask,
                 callee>>

\* seeded fault: the gate written as now < last + 10
MainPoll_deadline ==
  /\ pc = "poll" /\ ~Preempted
  /\ Len(uart) < MaxFrames * FrameLen
  /\ LET nw == systick_millis
         dl == W32AddSmall(last, PERIOD_MS)
     IN  IF nw[1] < dl[1] \/ (nw[1] = dl[1] /\ nw[2] < dl[2])
         THEN pc' = "poll" /\ last' = last /\ now' = Zero32
         ELSE pc' = "disable" /\ last' = nw /\ now' = nw
  /\ UNCHANGED <<gyro_bias_z, t, smp, p, uart, i2c_dr, bias_writes,
                 begin_ret, cur, hist,
                 irqVars, envVars, decVars, systick_on, primask, exti_on,
                 callee, clean>>

\* uint32_t now = millis(); if(now - last < 10) continue; last = now;
\* (now is a local of the loop body: it is gone after continue)
MainPoll ==
  /\ pc = "poll" /\ ~Preempted
  /\ Len(uart) < MaxFrames * FrameLen
  /\ LET nw == systick_millis
     IN  IF W32Below(W32Sub(nw, last), PERIOD_MS)
         THEN pc' = "poll" /\ last' = last /\ now' = Zero32
         ELSE pc' = "disable" /\ last' = nw /\ now' = nw
  /\ UNCHANGED <<gyro_bias_z, t, smp, p, uart, i2c_dr, bias_writes,
                 begin_ret, cur, hist,
                 irqVars, envVars, decVars, systick_on, primask, exti_on,
                 callee, clean>>

\* seeded fault: __disable_irq() left out
MainDisable_unmasked ==
  /\ pc = "disable" /\ ~Preempted
  /\ primask' = primask
  /\ cur' = [cur EXCEPT !.snap = enc]
  /\ pc' = "copyFL"
  /\ UNCHANGED <<gyro_bias_z, last, now, t, smp, p, uart, i2c_dr, bias_writes,
                 begin_ret, hist, irqVars, envVars, decVars, systick_on, exti_on,
                 callee, clean>>

\* __disable_irq();
MainDisable ==
  /\ pc = "disable" /\ ~Preempted
  /\ primask' = TRUE
  /\ cur' = [cur EXCEPT !.snap = enc]
  /\ pc' = "copyFL"
  /\ UNCHANGED <<gyro_bias_z, last, now, t, smp, p, uart, i2c_dr, bias_writes,
                 begin_ret, hist, irqVars, envVars, decVars, systick_on, exti_on,
                 callee, clean>>

\* tFL = encFL; tFR = encFR; tBL = encBL; tBR = encBR;
MainCopy(from, w, to) ==
  /\ pc = from /\ ~Preempted
  /\ t' = [t EXCEPT ![w] = enc[w]]
  /\ pc' = to
  /\ UNCHANGED <<gyro_bias_z, last, now, smp, p, uart, i2c_dr, bias_writes,
                 begin_ret, cur, hist, irqVars, envVars, decVars, systick_on, primask,
                 exti_on, callee, clean>>

\* seeded fault: __enable_irq() left out
MainEnable_forgotten ==
  /\ pc = "enable"
  /\ primask' = primask
  /\ pc' = "read"
  /\ UNCHANGED <<gyro_bias_z, last, now, t, smp, p, uart, i2c_dr, bias_writes,
                 begin_ret, cur, hist, irqVars, envVars, decVars, systick_on, exti_on,
                 callee, clean>>

\* __enable_irq();
MainEnable ==
  /\ pc = "enable"
  /\ primask' = FALSE
  /\ pc' = "read"
  /\ UNCHANGED <<gyro_bias_z, last, now, t, smp, p, uart, i2c_dr, bias_writes,
                 begin_ret, cur, hist, irqVars, envVars, decVars, systick_on, exti_on,
                 callee, clean>>

\* float ax = 0, ...; uint8_t ok = mpu_read(&ax, &ay, &az, &gx, &gy, &gz);
MainRead(burst) ==
  /\ pc = "read" /\ ~Preempted
  /\ smp' = mpu_read(burst, gyro_bias_z, ZeroOut)
  /\ i2c_dr' = DrAfter(burst)
  /\ cur' = [cur EXCEPT !.ret = burst.ret, !.timed_out = burst.timed_out,
                        !.bias = gyro_bias_z]
  /\ pc' = "build"
  /\ UNCHANGED <<gyro_bias_z, last, now, t, p, uart, bias_writes, begin_ret,
                 hist,
                 irqVars, envVars, decVars, systick_on, primask, exti_on,
                 callee, clean>>

\* Payload p; p.t_ms = now; ... p.flags = ok ? 0 : 0x0001;
BuildPayload(tm, tk, s) ==
  [t_ms |-> tm, ticksFL |-> tk.FL, ticksFR |-> tk.FR, ticksBL |-> tk.BL,
   ticksBR |-> tk.BR, ax |-> s.ax, ay |-> s.ay, az |-> s.az,
   gx |-> s.gx, gy |-> s.gy, gz |-> s.gz,
   flags |-> IF s.ret # 0 THEN 0 ELSE 1]

MainBuild ==
  /\ pc = "build" /\ ~Preempted
  /\ p' = BuildPayload(now, t, smp)
  /\ pc' = "send"
  /\ UNCHANGED <<gyro_bias_z, last, now, t, smp, uart, i2c_dr, bias_writes,
                 begin_ret, cur, hist, irqVars, envVars, decVars, systick_on, primask,
                 exti_on, callee, clean>>

\* send_payload(&p); then the locals of the loop body go out of scope.
\* No handler touches USART3, so the 49 writes are taken as one step.
MainSend ==
  /\ pc = "send" /\ ~Preempted
  /\ uart' = uart \o send_payload(p)
  /\ hist' = Append(hist, [now |-> now, t |-> t, snap |-> cur.snap,
                           ret |-> cur.ret, timed_out |-> cur.timed_out,
                           bias |-> cur.bias, smp |-> smp])
  /\ cur' = NoCycle
  /\ t' = ZeroTicks /\ smp' = ZeroOut /\ p' = NoPayload /\ now' = Zero32
  /\ pc' = "poll"
  /\ UNCHANGED <<gyro_bias_z, last, i2c_dr, bias_writes, begin_ret, irqVars,
                 envVars, decVars, systick_on, primask, exti_on, callee,
                 clean>>

Main ==
  \/ Boot
  \/ \E r \in BeginRets : MainBegin(r)
  \/ \E b \in Bursts : MainCalibrate(b)
  \/ MainCapture
  \/ MainExtiInit
  \/ MainPoll
  \/ MainDisable
  \/ MainCopy("copyFL", "FL", "copyFR")
  \/ MainCopy("copyFR", "FR", "copyBL")
  \/ MainCopy("copyBL", "BL", "copyBR")
  \/ MainCopy("copyBR", "BR", "enable")
  \/ MainEnable
  \/ \E b \in Bursts : MainRead(b)
  \/ MainBuild
  \/ MainSend

Next ==
  \/ Main
  \/ TickEvent
  \/ SysTick_Handler
  \/ \E l \in Lines : Edge(l)
  \/ IrqEXTI9_5
  \/ IrqEXTI15_10
  \/ IrqEXTI3
  \/ IrqEXTI4

Spec == Init /\ [][Next]_vars

(***************************************************************************)
(* The firmware with the scheduling of its start-up: no interrupt is       *)
(* enabled but SysTick, so main runs on from statement to statement.       *)
(***************************************************************************)
FairStart ==
  /\ WF_vars(Boot)
  /\ WF_vars(\E r \in BeginRets : MainBegin(r))
  /\ WF_vars(\E b \in Bursts : MainCalibrate(b))
  /\ WF_vars(MainCapture)
  /\ WF_vars(MainExtiInit)

SpecStart == Init /\ [][Next]_vars /\ FairStart

(***************************************************************************)
(* The callers alone: mpu_begin and i2c_read_burst hand back any value of  *)
(* their contract (0 or 1; one byte short or the full burst), whatever     *)
(* their code would return.                                               *)
(***************************************************************************)
InitAny == InitBoot /\ callee = "any"

SpecAny == InitAny /\ [][Next]_vars

(***************************************************************************)
(* The acquisition loop late in a run: main is at the top of its loop, the *)
(* wheels have not moved yet, and the millisecond counter is zero or a few *)
(* ticks before it wraps at 2^32 (49.7 days of running).  uart and hist    *)
(* hold what is sent from here on.                                         *)
(***************************************************************************)
LateClocks == {Zero32, <<Half - 1, Half - 16>>, <<Half - 1, Half - 10>>}

InitLate ==
  /\ pc = "poll"
  /\ \E c \in LateClocks : systick_millis = c /\ last = c
  /\ systick_on = TRUE /\ tick_pending = FALSE /\ primask = FALSE
  /\ exti_on = TRUE /\ PR = {} /\ unserved = {}
  /\ pins = [l \in Lines |-> 1]
  /\ enc = ZeroTicks
  /\ prev = [w \in Wheels |-> rd(w, pins)]
  /\ clean = [w \in Wheels |-> TRUE]
  /\ \/ bus_ok = TRUE /\ imu \in ImuImages
     \/ bus_ok = FALSE /\ imu = ImgA
  /\ callee = "code"
  /\ LET b == i2c_read_burst(BurstLen, bus_ok, imu, 0)
     IN  /\ gyro_bias_z = CalibBiasOf(b, Zero32)
         /\ i2c_dr = IF b.timed_out THEN 0 ELSE b.buf[BurstLen]
  /\ bias_writes = 1 /\ begin_ret = 1
  /\ now = Zero32 /\ t = ZeroTicks /\ smp = ZeroOut /\ p = NoPayload
  /\ uart = <<>> /\ hist = <<>> /\ cur = NoCycle
  /\ edges = 0 /\ exp = ZeroTicks
  /\ d_w = "FL" /\ d_start = [enc |-> Zero32, prev |-> 0]
  /\ d_f = 0 /\ d_r = 0 /\ d_ok = TRUE /\ d_n = 0

\* the body of while(1) and the interrupts
NextLate ==
  \/ MainPoll
  \/ MainDisable
  \/ MainCopy("copyFL", "FL", "copyFR")
  \/ MainCopy("copyFR", "FR", "copyBL")
  \/ MainCopy("copyBL", "BL", "copyBR")
  \/ MainCopy("copyBR", "BR", "enable")
  \/ MainEnable
  \/ \E b \in Bursts : MainRead(b)
  \/ MainBuild
  \/ MainSend
  \/ TickEvent
  \/ SysTick_Handler
  \/ \E l \in Lines : Edge(l)
  \/ IrqEXTI9_5
  \/ IrqEXTI15_10
  \/ IrqEXTI3
  \/ IrqEXTI4

SpecLate == InitLate /\ [][NextLate]_vars

(***************************************************************************)
(* The acquisition loop from its entry on, with its scheduling: main runs  *)
(* on whenever no handler has the core, a pending interrupt that is not    *)
(* masked is taken, and the SysTick counter keeps reloading.               *)
(***************************************************************************)
InitLive == InitLate /\ systick_millis = Zero32

\* main leaves the statement it is at (pc changes) whenever no handler has
\* the core.  For mpu_read and send_payload this is said of main's position
\* alone: both return whatever they compute.
MainLoop ==
  \/ MainPoll
  \/ MainDisable
  \/ MainCopy("copyFL", "FL", "copyFR")
  \/ MainCopy("copyFR", "FR", "copyBL")
  \/ MainCopy("copyBL", "BL", "copyBR")
  \/ MainCopy("copyBR", "BR", "enable")
  \/ MainEnable
  \/ MainBuild

ReadReturns == pc = "read" /\ ~Preempted /\ pc' = "build"

SendReturns == pc = "send" /\ ~Preempted /\ pc' = "poll"

Fairness ==
  /\ WF_vars(MainLoop)
  /\ WF_pc(ReadReturns)
  /\ WF_pc(SendReturns)
  /\ WF_vars(TickEvent)
  /\ WF_vars(SysTick_Handler)
  /\ WF_vars(IrqEXTI9_5)
  /\ WF_vars(IrqEXTI15_10)
  /\ WF_vars(IrqEXTI3)
  /\ WF_vars(IrqEXTI4)

SpecLive == InitLive /\ [][NextLate]_vars /\ Fairness

(***************************************************************************)
(* send_payload alone, compiled for a host of either byte order.  The      *)
(* function sends the object representation of *p, byte by byte from the   *)
(* lowest address: what lies there is the host's layout of the fields.     *)
(***************************************************************************)
ByteOrders == {"little", "big"}

Reverse(q) == [i \in 1..Len(q) |-> q[Len(q) + 1 - i]]

\* a field's bytes in memory, lowest address first
FieldBytes(order, le) == IF order = "little" THEN le ELSE Reverse(le)

\* the packed struct Payload as it lies in the memory of the host
PayloadImage(order, q) ==
  FieldBytes(order, Bytes32(q.t_ms)) \o FieldBytes(order, Bytes32(q.ticksFL)) \o
  FieldBytes(order, Bytes32(q.ticksFR)) \o FieldBytes(order, Bytes32(q.ticksBL)) \o
  FieldBytes(order, Bytes32(q.ticksBR)) \o
  FieldBytes(order, Bytes32(q.ax)) \o FieldBytes(order, Bytes32(q.ay)) \o
  FieldBytes(order, Bytes32(q.az)) \o FieldBytes(order, Bytes32(q.gx)) \o
  FieldBytes(order, Bytes32(q.gy)) \o FieldBytes(order, Bytes32(q.gz)) \o
  FieldBytes(order, Bytes16(q.flags))

send_payload_on(order, q) ==
  LET data == PayloadImage(order, q)
  IN  <<H0, H1>> \o SubSeq(data, 1, SizeofPayload)
        \o <<checksum_xor(data, SizeofPayload)>>

\* the payloads send_payload is tried on
HostTimes == {Zero32, <<0, 1>>, <<1, 2>>, <<4660, 22136>>}
HostTicks == {Zero32, <<0, 258>>, <<Half - 1, Half - 2>>}
HostSamples == {mpu_read(i2c_read_burst(BurstLen, TRUE, img, 0), Zero32, ZeroOut) :
                  img \in ImuImages} \cup {ZeroOut}

InitHost ==
  /\ pc = "send"
  /\ \E tm \in HostTimes, k1 \in HostTicks, k2 \in HostTicks, sm \in HostSamples :
       /\ now = tm
       /\ t = [FL |-> k1, FR |-> k2, BL |-> k2, BR |-> k1]
       /\ smp = sm
       /\ p = BuildPayload(tm, t, sm)
  /\ systick_millis = now /\ last = now
  /\ systick_on = TRUE /\ tick_pending = FALSE /\ primask = FALSE
  /\ exti_on = TRUE /\ PR = {} /\ unserved = {}
  /\ pins = [l \in Lines |-> 1]
  /\ enc = t
  /\ prev = [w \in Wheels |-> rd(w, pins)]
  /\ clean = [w \in Wheels |-> TRUE]
  /\ bus_ok = TRUE /\ imu = ImgA /\ i2c_dr = 0
  /\ callee = "code"
  /\ gyro_bias_z = Zero32
  /\ bias_writes = 1 /\ begin_ret = 1
  /\ uart = <<>> /\ hist = <<>> /\ cur = NoCycle
  /\ edges = 0 /\ exp = ZeroTicks
  /\ d_w = "FL" /\ d_start = [enc |-> Zero32, prev |-> 0]
  /\ d_f = 0 /\ d_r = 0 /\ d_ok = TRUE /\ d_n = 0

\* send_payload(&p) on a host of the given byte order
SendOn(order) ==
  /\ pc = "send"
  /\ uart' = uart \o send_payload_on(order, p)
  /\ pc' = "sent"
  /\ UNCHANGED <<gyro_bias_z, last, now, t, smp, p, i2c_dr, bias_writes,
                 begin_ret, cur, hist, irqVars, envVars, decVars, systick_on,
                 primask, exti_on, callee, clean>>

NextHost == \E order \in ByteOrders : SendOn(order)

SpecHost == InitHost /\ [][NextHost]_vars

(***************************************************************************)
(* mpu_read alone: main is at the sensor read of a cycle, the sensor       *)
(* answers, and its 14 output registers hold any of a set of images:       *)
(* ACCEL_XOUT and TEMP_OUT range over several values each, the other five  *)
(* pairs over four combinations.                                           *)
(***************************************************************************)
ReadPairsX == {<<16, 0>>, <<0, 0>>, <<255, 255>>, <<128, 0>>, <<127, 255>>, <<0, 7>>}
ReadPairsTemp == {<<0, 0>>, <<11, 184>>, <<255, 255>>}
ReadRest ==
  {<<0, 0,      1, 0,      255, 253,  0, 5,      0, 7>>,
   <<127, 255,  255, 255,  1, 0,      128, 0,    3, 232>>,
   <<255, 3,    11, 184,   16, 0,     0, 7,      255, 255>>,
   <<128, 0,    0, 5,      0, 0,      127, 255,  255, 3>>}

ReadImages ==
  {x \o SubSeq(r, 1, 4) \o tp \o SubSeq(r, 5, 10) :
     x \in ReadPairsX, tp \in ReadPairsTemp, r \in ReadRest}

InitRead ==
  /\ pc = "read"
  /\ bus_ok = TRUE /\ imu \in ReadImages /\ i2c_dr = 0
  /\ callee = "code"
  /\ gyro_bias_z = Zero32
  /\ systick_millis = <<0, PERIOD_MS>> /\ last = systick_millis /\ now = last
  /\ systick_on = TRUE /\ tick_pending = FALSE /\ primask = FALSE
  /\ exti_on = TRUE /\ PR = {} /\ unserved = {}
  /\ pins = [l \in Lines |-> 1]
  /\ enc = ZeroTicks /\ t = ZeroTicks
  /\ prev = [w \in Wheels |-> rd(w, pins)]
  /\ clean = [w \in Wheels |-> TRUE]
  /\ smp = ZeroOut /\ p = NoPayload
  /\ bias_writes = 1 /\ begin_ret = 1
  /\ uart = <<>> /\ hist = <<>> /\ cur = NoCycle
  /\ edges = 0 /\ exp = ZeroTicks
  /\ d_w = "FL" /\ d_start = [enc |-> Zero32, prev |-> 0]
  /\ d_f = 0 /\ d_r = 0 /\ d_ok = TRUE /\ d_n = 0

NextRead == \E b \in Bursts : MainRead(b)

SpecRead == InitRead /\ [][NextRead]_vars

(***************************************************************************)
(* The decoders alone: one wheel's isrXX is called again and again, each   *)
(* time with a pin phase of the caller's choice, from any starting phase   *)
(* and from starting positions at and around the ends of int32_t.          *)
(***************************************************************************)
StartPositions == {Zero32, <<0, 10>>, <<32767, 65535>>, <<32768, 0>>, <<65535, 65535>>}

isr(w, ds, pn) ==
  CASE w = "FL" -> isrFL(ds, pn) [] w = "FR" -> isrFR(ds, pn)
    [] w = "BL" -> isrBL(ds, pn) [] w = "BR" -> isrBR(ds, pn)

\* the pin levels with wheel w's channels A, B showing phase ph
PinsAt(pn, w, ph) == [pn EXCEPT ![PinA(w)] = ph \div 2, ![PinB(w)] = ph % 2]

InitDec ==
  /\ InitCommon
  /\ pc = "dec"
  /\ callee = "code" /\ bus_ok = TRUE /\ imu = ImgA
  /\ \E w \in Wheels, e0 \in StartPositions, ph \in 0..3 :
       /\ d_w = w
       /\ d_start = [enc |-> e0, prev |-> ph]
       /\ enc = [ZeroTicks EXCEPT ![w] = e0]
       /\ prev = [ZeroPhases EXCEPT ![w] = ph]
       /\ pins = PinsAt([l \in Lines |-> 1], w, ph)
  /\ d_f = 0 /\ d_r = 0 /\ d_ok = TRUE /\ d_n = 0

\* One invocation of the wheel's decoder with the pins at phase ns.  d_f and
\* d_r count the single steps along and against the phase cycle; d_ok says
\* that so far the calls were single steps, all the forward ones first.
DecStep(ns) ==
  LET pn2 == PinsAt(pins, d_w, ns)
      ds2 == isr(d_w, [enc |-> enc, prev |-> prev], pn2)
      dir == GrayDir(rd(d_w, pins), ns)
  IN  /\ pc = "dec"
      /\ d_n < MaxDecSteps
      /\ pins' = pn2
      /\ enc' = ds2.enc
      /\ prev' = ds2.prev
      /\ d_n' = d_n + 1
      /\ d_f' = IF dir = 1 THEN d_f + 1 ELSE d_f
      /\ d_r' = IF dir = -1 THEN d_r + 1 ELSE d_r
      /\ d_ok' = (d_ok /\ dir # 0 /\ (dir = 1 => d_r = 0))
      /\ UNCHANGED <<mainVars, systick_millis, tick_pending, PR, unserved,
                     systick_on, primask, exti_on, callee, clean, bus_ok, imu, edges, exp,
                     d_w, d_start>>

NextDec == \E ns \in 0..3 : DecStep(ns)

SpecDec == InitDec /\ [][NextDec]_vars

(***************************************************************************)
(* The wire, read back.  A receiver's view of the byte stream: frames of   *)
(* 49 bytes, little-endian fields at fixed offsets (1-based positions).    *)
(***************************************************************************)
WireFrame(k) == SubSeq(uart, 49 * (k - 1) + 1, 49 * k)

\* the 32-bit word whose four bytes start at position i of f
LE32At(f, i) == <<f[i + 2] + 256 * f[i + 3], f[i] + 256 * f[i + 1]>>

LE16At(f, i) == f[i] + 256 * f[i + 1]

\* XOR of the bytes of s, bit by bit: bit b is set when an odd number of the
\* bytes have it set
ParityByte(s) ==
  LET odd(b) == Cardinality({j \in DOMAIN s : (s[j] \div Pow2(b)) % 2 = 1}) % 2
  IN  odd(0) + 2 * odd(1) + 4 * odd(2) + 8 * odd(3) + 16 * odd(4)
        + 32 * odd(5) + 64 * odd(6) + 128 * odd(7)

(***************************************************************************)
(* C1: the UART stream is a concatenation of whole 49-byte frames: 0xAA,   *)
(* 0x55, then timeMs, ticksFL, ticksFR, ticksBL, ticksBR, accelX, accelY,  *)
(* accelZ, gyroX, gyroY, gyroZ, flags of the cycle that sent it, then one  *)
(* checksum byte, and nothing between or inside the frames.                *)
(***************************************************************************)
C1_StreamOfWholeFrames ==
  /\ Len(uart) = 49 * Len(hist)
  /\ \A k \in 1..Len(hist) :
       LET f == WireFrame(k)
           h == hist[k]
       IN  /\ f[1] = 170 /\ f[2] = 85
           /\ LE32At(f, 3) = h.now
           /\ LE32At(f, 7) = h.t.FL
           /\ LE32At(f, 11) = h.t.FR
           /\ LE32At(f, 15) = h.t.BL
           /\ LE32At(f, 19) = h.t.BR
           /\ LE32At(f, 23) = h.smp.ax
           /\ LE32At(f, 27) = h.smp.ay
           /\ LE32At(f, 31) = h.smp.az
           /\ LE32At(f, 35) = h.smp.gx
           /\ LE32At(f, 39) = h.smp.gy
           /\ LE32At(f, 43) = h.smp.gz
           /\ LE16At(f, 47) = (IF h.smp.ret # 0 THEN 0 ELSE 1)
           /\ f[49] \in 0..255

\* two frames on the wire, of two different cycles, with wheel ticks in one
C1_TwoFramesSent ==
  /\ Len(uart) = 98
  /\ hist[1].now # hist[2].now
  /\ \E k \in 1..2 : hist[k].t # ZeroTicks

(***************************************************************************)
(* C2: in every transmitted frame the checksum byte (the 49th) is the      *)
(* byte-wise XOR of exactly the 46 payload bytes of that frame (the 3rd to *)
(* the 48th), the two header bytes left out.                               *)
(***************************************************************************)
C2_ChecksumOverPayload ==
  \A k \in 1..(Len(uart) \div 49) :
    WireFrame(k)[49] = ParityByte(SubSeq(WireFrame(k), 3, 48))

\* a frame whose checksum is not zero, and whose first payload byte is not
C2_ChecksumSeen ==
  /\ Len(uart) >= 49
  /\ WireFrame(1)[49] # 0
  /\ WireFrame(1)[3] # 0
  /\ WireFrame(1)[49] # ParityByte(SubSeq(WireFrame(1), 1, 48))

(***************************************************************************)
(* C3: one decoder invocation with lastPhase = a that reads phase b moves  *)
(* the position by the table entry at index (a << 2 | b) and then sets     *)
(* lastPhase = b.  The entry is 0 for a = b, 0 when both bits differ, and  *)
(* for a single step +1 along the phase cycle 00 -> 10 -> 11 -> 01 -> 00   *)
(* (all four steps) and -1 against it (all four steps).  The other wheels  *)
(* are left alone.                                                         *)
(***************************************************************************)
BitsChanged(a, b) ==
  (IF a \div 2 # b \div 2 THEN 1 ELSE 0) + (IF a % 2 # b % 2 THEN 1 ELSE 0)

StepOf(a, b) ==
  CASE BitsChanged(a, b) = 0 -> 0
    [] BitsChanged(a, b) = 2 -> 0
    [] BitsChanged(a, b) = 1 ->
         IF <<a, b>> \in {<<0, 2>>, <<2, 3>>, <<3, 1>>, <<1, 0>>} THEN 1 ELSE -1

C3_DecoderStep ==
  [][(pc = "dec" /\ d_n' = d_n + 1) =>
       LET a == prev[d_w]
           b == rd(d_w, pins')
       IN  /\ qLUT[a * 4 + b + 1] = StepOf(a, b)
           /\ enc'[d_w] = W32AddSmall(enc[d_w], StepOf(a, b))
           /\ prev'[d_w] = b
           /\ \A w \in Wheels \ {d_w} : enc'[w] = enc[w] /\ prev'[w] = prev[w]]_vars

\* the decoder has seen steps both ways and a non-step, and has moved
C3_StepsSeen ==
  /\ pc = "dec"
  /\ d_f >= 1 /\ d_r >= 2 /\ d_n > d_f + d_r
  /\ enc[d_w] # d_start.enc

(***************************************************************************)
(* C4: end to end, for each wheel, once the edge interrupts are on and     *)
(* lastPhase is the phase of the pins: after every edge of a clean         *)
(* sequence has had its interrupt serviced, the wheel's position is its    *)
(* starting value plus the forward steps minus the reverse steps.          *)
(***************************************************************************)
C4_EndToEnd ==
  \A w \in Wheels :
    (exti_on /\ clean[w] /\ unserved \cap {PinA(w), PinB(w)} = {})
      => enc[w] = exp[w]

\* the same for the three wheels all of whose lines a vectored handler tests
C4_ThreeWheels ==
  \A w \in {"FL", "FR", "BL"} :
    (exti_on /\ clean[w] /\ unserved \cap {PinA(w), PinB(w)} = {})
      => enc[w] = exp[w]

\* an edge on a wheel was serviced and counted
C4_EdgeCounted ==
  \E w \in {"FL", "FR", "BL"} :
    /\ exti_on /\ clean[w] /\ unserved = {}
    /\ exp[w] # Zero32 /\ enc[w] = exp[w]

(***************************************************************************)
(* C5: from any starting phase and position, N decoder invocations that    *)
(* each see a single forward step, then N that each see a single reverse   *)
(* step, leave the position and lastPhase at their starting values.        *)
(***************************************************************************)
C5_ForthAndBack ==
  (pc = "dec" /\ d_ok /\ d_f = d_r)
    => (enc[d_w] = d_start.enc /\ prev[d_w] = d_start.prev)

\* three steps forth and three back, over the upper end of int32_t
C5_ThreeForthThreeBack ==
  /\ pc = "dec" /\ d_ok
  /\ d_f = 3 /\ d_r = 3
  /\ d_start.enc = <<32767, 65535>>
  /\ enc[d_w] = d_start.enc

(***************************************************************************)
(* C6: the four tick values of a frame are one point-in-time snapshot:     *)
(* they are what encFL, encFR, encBL, encBR all held at one instant after  *)
(* the cycle's time was read and before the sensor read (the instant of    *)
(* __disable_irq), and no decoder moves a counter from then until the      *)
(* last of the four copies is made.                                        *)
(***************************************************************************)
C6_Snapshot ==
  /\ pc \in {"copyFL", "copyFR", "copyBL", "copyBR", "enable"} => enc = cur.snap
  /\ pc \in {"copyFR", "copyBL", "copyBR", "enable"} => t.FL = cur.snap.FL
  /\ pc \in {"copyBL", "copyBR", "enable"} => t.FR = cur.snap.FR
  /\ pc \in {"copyBR", "enable"} => t.BL = cur.snap.BL
  /\ pc \in {"enable", "read", "build", "send"} => t = cur.snap
  /\ \A k \in 1..Len(hist) :
       /\ LE32At(WireFrame(k), 7) = hist[k].snap.FL
       /\ LE32At(WireFrame(k), 11) = hist[k].snap.FR
       /\ LE32At(WireFrame(k), 15) = hist[k].snap.BL
       /\ LE32At(WireFrame(k), 19) = hist[k].snap.BR

\* an edge arrived between the copies and waits; the copies are the snapshot
C6_EdgeHeldBack ==
  /\ pc = "enable" /\ primask
  /\ PR # {}
  /\ t = cur.snap /\ enc = cur.snap

(***************************************************************************)
(* C7: in every cycle, if the burst read reports fewer than 14 bytes then  *)
(* mpu_read returns 0 and the frame of the cycle has flags = 0x0001;       *)
(* otherwise the frame has flags = 0x0000.                                 *)
(***************************************************************************)
C7_Flags ==
  \A k \in 1..Len(hist) :
    IF hist[k].ret < 14
    THEN hist[k].smp.ret = 0 /\ LE16At(WireFrame(k), 47) = 1
    ELSE LE16At(WireFrame(k), 47) = 0

\* a short burst in one cycle and a full one in the next
C7_BothFlagsSent ==
  /\ Len(hist) = 2
  /\ hist[1].ret = 13 /\ LE16At(WireFrame(1), 47) = 1
  /\ hist[2].ret = 14 /\ LE16At(WireFrame(2), 47) = 0

(***************************************************************************)
(* C8: a bus failure is reported: when an I2C wait of the cycle's burst    *)
(* read ran out of its timeout counter, the burst reports fewer than 14    *)
(* bytes, mpu_read returns 0 and the frame of the cycle has flags bit 0    *)
(* set.                                                                    *)
(***************************************************************************)
C8_BusFailureReported ==
  \A k \in 1..Len(hist) :
    hist[k].timed_out =>
      /\ hist[k].ret < 14
      /\ hist[k].smp.ret = 0
      /\ WireFrame(k)[47] % 2 = 1

(***************************************************************************)
(* C9: if mpu_begin reports failure, main is in its halt loop from then    *)
(* on: no byte is ever sent, the calibration never runs and the encoder    *)
(* interrupts are never enabled.                                           *)
(***************************************************************************)
C9_FailStop ==
  begin_ret = 0 =>
    /\ pc = "halt"
    /\ uart = <<>>
    /\ bias_writes = 0 /\ gyro_bias_z = Zero32
    /\ ~exti_on /\ PR = {} /\ enc = ZeroTicks

\* halted, while the clock runs on and an encoder pin has changed level
C9_Halted ==
  /\ begin_ret = 0 /\ pc = "halt"
  /\ systick_millis # Zero32
  /\ edges >= 1

(***************************************************************************)
(* C10: the lifecycle only moves forward, Uninitialized -> Calibrating ->  *)
(* Running; gyro_bias_z is assigned once, on leaving Calibrating; no byte  *)
(* is sent before that; it does not change once Running; every frame's     *)
(* gyro Z was corrected with that final value.                             *)
(***************************************************************************)
Phase(at) ==
  CASE at \in {"boot", "begin"} -> 0
    [] at = "calib" -> 1
    [] at = "halt" -> 3
    [] OTHER -> 2

C10_Lifecycle ==
  /\ [](/\ bias_writes <= 1
        /\ (Phase(pc) < 2 => bias_writes = 0 /\ uart = <<>>)
        /\ (Phase(pc) = 2 => bias_writes = 1)
        /\ (uart # <<>> => bias_writes = 1)
        /\ \A k \in 1..Len(hist) : hist[k].bias = gyro_bias_z)
  /\ [][/\ Phase(pc') >= Phase(pc)
        /\ (Phase(pc) = 2 => Phase(pc') = 2 /\ gyro_bias_z' = gyro_bias_z)
        /\ (gyro_bias_z' # gyro_bias_z => Phase(pc) = 1 /\ Phase(pc') = 2)
        /\ (bias_writes' # bias_writes => Phase(pc) = 1 /\ Phase(pc') = 2)]_vars

\* two frames out, both corrected with the one calibrated bias
C10_CalibratedFrames ==
  /\ Len(hist) = 2
  /\ bias_writes = 1
  /\ gyro_bias_z # Zero32
  /\ hist[1].bias = gyro_bias_z /\ hist[2].bias = gyro_bias_z

(***************************************************************************)
(* C11: the rate gate.  While fewer than 10 ms (modulo 2^32) have passed   *)
(* since the time recorded for the last sample, no step disables the       *)
(* interrupts, copies a counter, reads the sensor, builds or sends a frame *)
(* or changes the recorded time; bytes reach the wire only as one whole    *)
(* frame per pass that got through the gate, stamped with the time that    *)
(* pass read; and the timeMs of two frames in a row differ by at least 10, *)
(* modulo 2^32.                                                            *)
(***************************************************************************)
C11_RateGate ==
  /\ [](\A k \in 1..(Len(hist) - 1) :
          ~W32Below(W32Sub(LE32At(WireFrame(k + 1), 3), LE32At(WireFrame(k), 3)), 10))
  /\ [](pc \in {"disable", "copyFL", "copyFR", "copyBL", "copyBR", "enable",
                "read", "build", "send"} => last = now)
  /\ [][(pc = "poll" /\ W32Below(W32Sub(systick_millis, last), 10))
          => /\ pc' = "poll"
             /\ UNCHANGED <<primask, t, smp, p, i2c_dr, uart, last, cur, hist>>]_vars
  /\ [][uart' # uart
          => /\ pc = "send" /\ pc' = "poll"
             /\ Len(uart') = Len(uart) + 49
             /\ SubSeq(uart', 1, Len(uart)) = uart
             /\ LE32At(SubSeq(uart', Len(uart) + 1, Len(uart) + 49), 3) = last]_vars

\* two frames in a row, one stamped before the counter wrapped and one after
C11_FramesAcrossWrap ==
  /\ Len(hist) = 2
  /\ LE32At(WireFrame(1), 3)[1] = Half - 1
  /\ LE32At(WireFrame(2), 3)[1] = 0

(***************************************************************************)
(* C12: the stream lives.  Once the acquisition loop is entered, a frame   *)
(* is sent, and after each frame another one (as far as the model follows  *)
(* the run), whatever edges the eight encoder pins show.                   *)
(***************************************************************************)
C12_FramesKeepComing ==
  \A n \in 0..(MaxFrames - 1) :
    (exti_on /\ Len(hist) = n) ~> (Len(hist) = n + 1)

\* the same as long as line 5 (PB5) is never pending
C12_WithoutPB5 ==
  [](ENC_BRB_PIN \notin PR) => C12_FramesKeepComing

(***************************************************************************)
(* C13: calibration over a constant stream.  With the sensor delivering    *)
(* the same raw gyro Z value V in every burst, the calibration leaves      *)
(* gyro_bias_z = V * GYRO_S exactly, and every frame after it carries a    *)
(* corrected gyro Z of 0.                                                  *)
(***************************************************************************)
C13_ConstantStream ==
  bus_ok =>
    /\ bias_writes = 1 =>
         gyro_bias_z = FMul(FOfInt(Raw16(imu[13], imu[14])), GYRO_S)
    /\ \A k \in 1..Len(hist) :
         LE32At(WireFrame(k), 43) \in {Zero32, <<Half \div 2, 0>>}

(***************************************************************************)
(* C14: the frame does not depend on the host.  Whatever the byte order of *)
(* the host send_payload runs on, the 49 bytes it sends for a payload are  *)
(* the same: each multi-byte field goes out least significant byte first.  *)
(***************************************************************************)
C14_HostIndependent ==
  pc = "sent" =>
    /\ Len(uart) = 49
    /\ uart[1] = 170 /\ uart[2] = 85
    /\ LE32At(uart, 3) = p.t_ms
    /\ LE32At(uart, 7) = p.ticksFL
    /\ LE32At(uart, 11) = p.ticksFR
    /\ LE32At(uart, 15) = p.ticksBL
    /\ LE32At(uart, 19) = p.ticksBR
    /\ LE32At(uart, 23) = p.ax
    /\ LE32At(uart, 27) = p.ay
    /\ LE32At(uart, 31) = p.az
    /\ LE32At(uart, 35) = p.gx
    /\ LE32At(uart, 39) = p.gy
    /\ LE32At(uart, 43) = p.gz
    /\ LE16At(uart, 47) = p.flags

(***************************************************************************)
(* C15: the decoders start with the acquisition loop.  Before the edge     *)
(* interrupts are enabled no line is pending and the four positions are 0, *)
(* whatever the pins do; the interrupts are enabled only when calibration  *)
(* is over; lastPhase of every wheel is written once before that, in the   *)
(* statement after the calibration, from the levels the pins have then;    *)
(* and the statement main executes next enables the interrupts.            *)
(***************************************************************************)
C15_DecodersStartWithLoop ==
  /\ [](~exti_on => PR = {} /\ enc = ZeroTicks)
  /\ [](exti_on <=> pc \notin {"boot", "begin", "halt", "calib", "capture", "exti"})
  /\ [](pc \in {"boot", "begin", "halt", "calib", "capture"} => prev = ZeroPhases)
  /\ [][pc = "calib" /\ pc' # pc => pc' = "capture" /\ bias_writes' = 1]_vars
  /\ [][pc = "capture" /\ pc' # pc
          => /\ pc' = "exti"
             /\ prev' = [w \in Wheels |-> 2 * pins[PinA(w)] + pins[PinB(w)]]]_vars
  /\ [][pc = "exti" => prev' = prev /\ enc' = enc]_vars
  /\ [][pc = "exti" /\ pc' # pc => pc' = "poll" /\ exti_on']_vars

\* a pin moved before the capture: lastPhase was taken from the pins, the
\* position is still 0 and the interrupts are on
C15_CapturedFromPins ==
  /\ exti_on /\ pc = "poll"
  /\ edges >= 1 /\ enc = ZeroTicks
  /\ \E w \in Wheels : clean[w] /\ prev[w] \notin {0, 3}

(***************************************************************************)
(* C16: the I2C driver always comes back.  Each wait reads the status      *)
(* register at most 10001 times (I2C_TIMEOUT + 1) whenever the flag        *)
(* appears, also never; so i2c_write (4 waits), mpu_begin (6 writes) and   *)
(* i2c_read_burst (5 waits and 14 reads) return after a bounded number of  *)
(* polls, and main gets from reset through mpu_begin and the calibration   *)
(* into the acquisition loop, with or without a sensor on the bus.         *)
(***************************************************************************)
C16_DriverTerminates ==
  /\ [](\A r \in WaitInputs :
          /\ ~i2c_wait(r).hung
          /\ i2c_wait(r).polls <= 10001
          /\ i2c_wait(r).timed_out <=> (r = 0 \/ r > 10001))
  /\ [](LET w == i2c_write(bus_ok)
            g == mpu_begin_run(bus_ok)
            b == i2c_read_burst(BurstLen, bus_ok, imu, i2c_dr)
        IN  /\ ~w.hung /\ w.polls <= 4 * 10001
            /\ ~g.hung /\ g.polls <= 24 * 10001
            /\ ~b.hung /\ b.polls <= 19 * 10001
            /\ BeginRets # {} /\ Bursts # {})
  /\ (pc \in {"boot", "begin", "calib", "capture", "exti"}) ~> (pc = "poll" /\ exti_on)

\* no sensor on the bus: every wait of a burst ran its 10001 polls, and main
\* is in the acquisition loop and has sent a frame
C16_RunningWithoutSensor ==
  /\ ~bus_ok /\ exti_on
  /\ Len(hist) >= 1 /\ hist[1].timed_out
  /\ i2c_read_burst(BurstLen, bus_ok, imu, i2c_dr).polls = 190019

(***************************************************************************)
(* C17: mpu_read takes the six raw values from the burst as signed 16-bit  *)
(* numbers, high byte first: accel X, Y, Z from bytes 0-1, 2-3, 4-5 and    *)
(* gyro X, Y, Z from bytes 8-9, 10-11, 12-13; bytes 6 and 7 play no part.  *)
(* Each accel output is the raw value times 9.80665/8192 in binary32 (so   *)
(* 0x10, 0x00 gives 4096 * 9.80665/8192 = 0x409CE80A), each gyro output    *)
(* the raw value times 0.001064225.  The expected words are those of a     *)
(* reference binary32 computation.                                         *)
(***************************************************************************)
S16BE(hi, lo) == hi * 256 + lo - (IF hi >= 128 THEN 65536 ELSE 0)

RefAccel(raw) ==
  CASE raw = 4096 -> <<16540, 59402>>
    [] raw = 0 -> <<0, 0>>
    [] raw = -1 -> <<47772, 59402>>
    [] raw = -32768 -> <<49692, 59402>>
    [] raw = 32767 -> <<16924, 59088>>
    [] raw = 7 -> <<15369, 19209>>
    [] raw = -3 -> <<47979, 23567>>
    [] raw = 5 -> <<15300, 8716>>
    [] raw = 1000 -> <<16281, 15002>>
    [] raw = 256 -> <<16028, 59402>>
    [] raw = 3000 -> <<16485, 55271>>
    [] raw = -253 -> <<48795, 4434>>

RefGyro(raw) ==
  CASE raw = 4096 -> <<16523, 32119>>
    [] raw = 0 -> <<0, 0>>
    [] raw = -1 -> <<47755, 32119>>
    [] raw = -32768 -> <<49675, 32119>>
    [] raw = 32767 -> <<16907, 31840>>
    [] raw = 7 -> <<15348, 7056>>
    [] raw = -3 -> <<47953, 15410>>
    [] raw = 5 -> <<15278, 23765>>
    [] raw = 1000 -> <<16264, 14470>>
    [] raw = 256 -> <<16011, 32119>>
    [] raw = 3000 -> <<16460, 21705>>
    [] raw = -253 -> <<48777, 56063>>

C17_RawReconstruction ==
  pc = "build" =>
    /\ smp.ret = 1
    /\ smp.ax = RefAccel(S16BE(imu[1], imu[2]))
    /\ smp.ay = RefAccel(S16BE(imu[3], imu[4]))
    /\ smp.az = RefAccel(S16BE(imu[5], imu[6]))
    /\ smp.gx = RefGyro(S16BE(imu[9], imu[10]))
    /\ smp.gy = RefGyro(S16BE(imu[11], imu[12]))
    /\ smp.gz = RefGyro(S16BE(imu[13], imu[14]))
    /\ (imu[1] = 16 /\ imu[2] = 0) => smp.ax = <<16540, 59402>>

\* the example of the claim, with a temperature of 0xFFFF next to it and
\* negative values in other channels
C17_ExampleRead ==
  /\ pc = "build"
  /\ imu[1] = 16 /\ imu[2] = 0 /\ smp.ax = <<16540, 59402>>
  /\ imu[7] = 255 /\ imu[8] = 255
  /\ imu[3] = 255 /\ smp.ay = <<48795, 4434>>
  /\ smp.gz = <<47755, 32119>>

(***************************************************************************)
(* C18: who writes what, once the acquisition loop runs.  A step that      *)
(* changes a wheel's position or lastPhase is the decoding of a pending    *)
(* line of that wheel: it leaves the wheels without a pending line, the    *)
(* millisecond counter, gyro_bias_z and everything main owns alone.  A     *)
(* step that changes the millisecond counter adds exactly 1 modulo 2^32    *)
(* and changes nothing else of the program.  A step of main changes no     *)
(* position, no lastPhase and not the millisecond counter.                 *)
(***************************************************************************)
C18_Ownership ==
  /\ [][(enc' # enc \/ prev' # prev)
          => /\ UNCHANGED <<systick_millis, gyro_bias_z, pc, last, now, t, smp,
                            p, uart, i2c_dr, primask>>
             /\ \A w \in Wheels :
                  (enc'[w] # enc[w] \/ prev'[w] # prev[w])
                    => \E l \in {PinA(w), PinB(w)} : l \in PR \/ pins'[l] # pins[l]]_vars
  /\ [][systick_millis' # systick_millis
          => /\ systick_millis' =
                  (IF systick_millis[2] = Half - 1
                   THEN <<(systick_millis[1] + 1) % Half, 0>>
                   ELSE <<systick_millis[1], systick_millis[2] + 1>>)
             /\ UNCHANGED <<enc, prev, gyro_bias_z, pc, last, now, t, smp, p,
                            uart, i2c_dr, primask, PR, pins>>]_vars
  /\ [][pc' # pc => UNCHANGED <<enc, prev, systick_millis, PR>>]_vars
  /\ [][gyro_bias_z' = gyro_bias_z]_vars

\* one wheel has moved, the other three have not, and the millisecond
\* counter has gone through its wrap
C18_OneWheelMovedClockWrapped ==
  /\ \E w \in Wheels :
       /\ enc[w] # Zero32
       /\ \A v \in Wheels \ {w} : enc[v] = Zero32 /\ prev[v] = 3
  /\ Len(hist) >= 1 /\ hist[1].now[1] = Half - 1
  /\ systick_millis[1] = 0

(***************************************************************************)
(* C19: the critical section is the four copies and nothing else.          *)
(* Interrupts are disabled exactly while main is between __disable_irq and *)
(* __enable_irq; they are enabled while it polls the time, reads the       *)
(* sensor, builds the payload and sends.  main goes from the disable       *)
(* through the four copies straight to the enable, and every disable is    *)
(* followed by the enable.  A tick or an edge that is pending is taken,    *)
(* the tick before main's next statement outside the critical section.     *)
(***************************************************************************)
C19_CriticalSection ==
  /\ [](primask <=> pc \in {"copyFL", "copyFR", "copyBL", "copyBR", "enable"})
  /\ [](pc \in {"poll", "disable", "read", "build", "send"} => ~primask)
  /\ [][pc' # pc /\ ~primask => ~tick_pending]_vars
  /\ [][primask' /\ ~primask => pc = "disable" /\ pc' = "copyFL"]_vars
  /\ [][primask /\ pc' # pc
          => <<pc, pc'>> \in {<<"copyFL", "copyFR">>, <<"copyFR", "copyBL">>,
                              <<"copyBL", "copyBR">>, <<"copyBR", "enable">>,
                              <<"enable", "read">>}]_vars
  /\ [][primask /\ ~primask' => pc = "enable" /\ pc' = "read"]_vars
  /\ primask ~> ~primask
  /\ tick_pending ~> ~tick_pending
  /\ \A l \in Lines : (l \in unserved) ~> (l \notin unserved)

\* a tick and an edge have arrived while the copies were made, and wait
C19_BothHeldBack ==
  /\ primask /\ pc \in {"copyBR", "enable"}
  /\ tick_pending
  /\ unserved # {}

(***************************************************************************)
(* C20: a frame flagged as a sensor failure carries no sensor data.  When  *)
(* mpu_read returns 0 it has left its six outputs as they were, and the    *)
(* frame of that cycle has accel X, Y, Z and gyro X, Y, Z all 0 (gyro Z    *)
(* with no bias taken off), flags 0x0001, and the time and the four tick   *)
(* counts of that very cycle.                                              *)
(***************************************************************************)
C20_NoDataWithFailure ==
  /\ LET short == [i2c_read_burst(BurstLen, bus_ok, imu, i2c_dr) EXCEPT !.ret = 13]
         was   == [ret |-> 1, ax |-> <<1, 2>>, ay |-> <<3, 4>>, az |-> <<5, 6>>,
                   gx |-> <<7, 8>>, gy |-> <<9, 10>>, gz |-> <<11, 12>>]
         got   == mpu_read(short, gyro_bias_z, was)
     IN  /\ got.ret = 0
         /\ <<got.ax, got.ay, got.az, got.gx, got.gy, got.gz>>
              = <<was.ax, was.ay, was.az, was.gx, was.gy, was.gz>>
  /\ \A k \in 1..Len(hist) :
       hist[k].smp.ret = 0 =>
         LET f == WireFrame(k)
         IN  /\ \A i \in 23..46 : f[i] = 0
             /\ LE16At(f, 47) = 1
             /\ LE32At(f, 3) = hist[k].now
             /\ <<LE32At(f, 7), LE32At(f, 11), LE32At(f, 15), LE32At(f, 19)>>
                  = <<hist[k].snap.FL, hist[k].snap.FR, hist[k].snap.BL, hist[k].snap.BR>>
             /\ \A j \in 1..(k - 1) : hist[j].now # hist[k].now

\* a second frame, flagged, from a calibrated system whose wheel has moved:
\* its sensor fields are 0, its time and ticks are its own
C20_FlaggedFrameSent ==
  /\ Len(hist) = 2
  /\ hist[2].smp.ret = 0 /\ hist[2].ret = 13
  /\ hist[2].bias # Zero32
  /\ hist[2].snap # ZeroTicks
  /\ LE32At(WireFrame(2), 43) = Zero32
  /\ LE32At(WireFrame(2), 3) # LE32At(WireFrame(1), 3)

=============================================================================
